---------------------------- MODULE Spec2Model ----------------------------
(***************************************************************************)
(* BBBDownloader: the chat-to-subtitles engine (chat_conversion.py,        *)
(* subtitles.py) and the part of the download pipeline that consumes it    *)
(* (main.py, utils.py).                                                    *)
(*                                                                         *)
(* Time.  A timedelta is an integer number of ticks of its resolution (one *)
(* microsecond in the program).  All arithmetic is the arithmetic of       *)
(* timedelta: + - and * by an integer are exact, timedelta / int rounds to *)
(* the nearest tick with ties to even, timedelta / timedelta is a ratio.   *)
(* The model keeps the tick and scales the lengths down: the signed        *)
(* counter that gives MAX_VALID_MP4_DURATION has CounterBits bits instead  *)
(* of 32, so the limit is 2^(CounterBits-1) - 1 ticks, odd as in the       *)
(* program, and CHAT_ENTRY_MAX_DURATION is 3 ticks, not above the limit,   *)
(* as in the program.                                                      *)
(*                                                                         *)
(* Three specifications share the variables:                               *)
(*   Spec       main(): the three gathered tasks, then build_video         *)
(*   GroupSpec  to_subtitles(entries, max_duration) on its own             *)
(*   FixSpec    apply_mp4_fixes(entries, recording_duration) on its own,   *)
(*              applied once and then once more to its own result          *)
(***************************************************************************)
EXTENDS Integers, Sequences, FiniteSets, TLC

VARIABLES
    entries,             \* the chat transcript: Sequence[BbbChatEntry]
    max_duration,        \* to_subtitles' max_duration
    recording_duration,  \* apply_mp4_fixes' recording_duration, or None
    subtitles,           \* the cue sequence handed to apply_mp4_fixes
    filled,              \* apply_mp4_fixes: the cues __fill_gapes yielded
    pieces,              \* apply_mp4_fixes: pieces[i] = what __split_entry yielded for filled[i]
    result,              \* what apply_mp4_fixes returned
    passes,              \* how many times apply_mp4_fixes has run
    pc,                  \* position of the function or pipeline under study
    no_chat,             \* args.no_chat
    deskshare,           \* main's deskshare: a file entry or None
    parts,               \* what the gathered tasks returned so far
    written,             \* files written to the temporary directory
    ffmpeg               \* the ffmpeg arguments build_video ran, empty before it

vars == <<entries, max_duration, recording_duration, subtitles, filled, pieces,
          result, passes, pc, no_chat, deskshare, parts, written, ffmpeg>>

\* An optional value is a sequence of at most one element: None, or Some(x)
None == <<>>

Some(x) == <<x>>

Value(opt) == opt[1]

-----------------------------------------------------------------------------
(* Bounds of the model *)

\* width in bits of the signed tick counter behind the duration limit (32 in the program)
CounterBits == 3
\* longest chat transcript
MaxEntries == 6
\* latest chat timestamp
MaxTimestamp == 3
\* largest max_duration tried (the smallest is -1)
MaxD == 4
\* most cues handed to apply_mp4_fixes on its own
MaxCues == 2
\* latest cue boundary and recording duration
MaxTime == 10

-----------------------------------------------------------------------------
(* subtitles.py *)

INT_32_MAX_VALUE == 2^(CounterBits - 1) - 1

MAX_VALID_MP4_DURATION == INT_32_MAX_VALUE

gape_placeholder == "nbsp"

SubtitlesEntry(text, start_time, end_time) ==
    [text |-> text, start_time |-> start_time, end_time |-> end_time]

\* timedelta / int: the quotient rounded to the nearest tick, ties to even
DivideAndRound(a, b) ==
    LET q == a \div b
        r == a % b
    IN  IF 2 * r > b \/ (2 * r = b /\ q % 2 = 1) THEN q + 1 ELSE q

\* ceil(timedelta / timedelta): the ratio is a correctly rounded float, which lies
\* on the same side of every whole number as the exact ratio for any duration a
\* recording can have, so the ceiling is that of the exact quotient
Ceil(a, b) == -((-a) \div b)

Min(a, b) == IF a <= b THEN a ELSE b

RECURSIVE Flatten(_)
Flatten(ss) == IF ss = <<>> THEN <<>> ELSE Head(ss) \o Flatten(Tail(ss))

\* split_entry with the last sub-cue's end reached by addition, not pinned
split_entry_unpinned(entry) ==
    LET duration == entry.end_time - entry.start_time
        n == Ceil(duration, MAX_VALID_MP4_DURATION)
        duration_per_one == DivideAndRound(duration, n)
    IN  IF duration <= MAX_VALID_MP4_DURATION
        THEN <<entry>>
        ELSE [k \in 1..n |->
                LET start_time == entry.start_time + duration_per_one * (k - 1)
                IN  SubtitlesEntry(entry.text, start_time, start_time + duration_per_one)]

split_entry(entry) ==
    LET duration == entry.end_time - entry.start_time
        n == Ceil(duration, MAX_VALID_MP4_DURATION)
        duration_per_one == DivideAndRound(duration, n)
    IN  IF duration <= MAX_VALID_MP4_DURATION
        THEN <<entry>>
        ELSE [k \in 1..n |->
                LET start_time == entry.start_time + duration_per_one * (k - 1)
                IN  IF k < n
                    THEN SubtitlesEntry(entry.text, start_time, start_time + duration_per_one)
                    ELSE SubtitlesEntry(entry.text, start_time, entry.end_time)]

\* A generator: with fewer than two entries it returns before its first yield,
\* so the caller's loop receives nothing.
fill_gapes(es) ==
    IF Len(es) < 2
    THEN <<>>
    ELSE LET all == <<SubtitlesEntry(gape_placeholder, 0, 0)>> \o es
         IN  Flatten([i \in 1..(Len(all) - 1) |->
                LET previous_entry == all[i]
                    current_entry == all[i + 1]
                    gape_duration == current_entry.start_time - previous_entry.end_time
                    current == SubtitlesEntry(current_entry.text, current_entry.start_time,
                                              current_entry.end_time)
                IN  IF gape_duration > MAX_VALID_MP4_DURATION
                    THEN <<SubtitlesEntry(gape_placeholder, previous_entry.end_time,
                                          current_entry.start_time), current>>
                    ELSE <<current>>])

\* clamp without the min: the last cue's end is set to the recording duration
clamp_to_duration(res, duration) ==
    IF res # <<>> /\ duration # None
    THEN [res EXCEPT ![Len(res)] =
            SubtitlesEntry(res[Len(res)].text, res[Len(res)].start_time, Value(duration))]
    ELSE res

\* apply_mp4_fixes, last step: the last cue's end is cut to the recording duration
clamp(res, duration) ==
    IF res # <<>> /\ duration # None
    THEN [res EXCEPT ![Len(res)] =
            SubtitlesEntry(res[Len(res)].text, res[Len(res)].start_time,
                           Min(res[Len(res)].end_time, Value(duration)))]
    ELSE res

split_all(fs) == [i \in 1..Len(fs) |-> split_entry(fs[i])]

apply_mp4_fixes(es, duration) == clamp(Flatten(split_all(fill_gapes(es))), duration)

to_srt(es) == [i \in 1..Len(es) |-> <<i, es[i].start_time, es[i].end_time, es[i].text>>]

-----------------------------------------------------------------------------
(* chat_conversion.py *)

CHAT_ENTRY_MAX_DURATION == 3

BbbChatEntry(name, message, timestamp) ==
    [name |-> name, message |-> message, timestamp |-> timestamp]

build_text(entry) == <<entry.name, ": ", entry.message>>

\* split_group with the last cue's end reached by addition, not pinned to the group's end
split_group_unpinned(group, duration) ==
    LET size == Len(group)
        part == DivideAndRound(duration, size)
        start_time == group[1].timestamp
    IN  [i \in 1..size |->
            SubtitlesEntry(build_text(group[i]), start_time + part * (i - 1),
                           start_time + part * (i - 1) + part)]

split_group(group, duration) ==
    LET size == Len(group)
        part == DivideAndRound(duration, size)
        start_time == group[1].timestamp
    IN  [i \in 1..size |->
            IF i < size
            THEN SubtitlesEntry(build_text(group[i]), start_time + part * (i - 1),
                                start_time + part * (i - 1) + part)
            ELSE SubtitlesEntry(build_text(group[i]), start_time + part * (size - 1),
                                start_time + duration)]

\* the keys of the defaultdict, in insertion order
RECURSIVE group_keys(_)
group_keys(es) ==
    IF es = <<>> THEN <<>>
    ELSE LET front == group_keys(SubSeq(es, 1, Len(es) - 1))
             t == es[Len(es)].timestamp
         IN  IF \E i \in 1..Len(front) : front[i] = t THEN front ELSE Append(front, t)

\* groups.values(): one list per key, its entries in transcript order
group_values(es) ==
    LET keys == group_keys(es)
        Grp(t) == LET Same(e) == e.timestamp = t IN SelectSeq(es, Same)
    IN  [g \in 1..Len(keys) |-> Grp(keys[g])]

to_subtitles(es, D) ==
    LET values == group_values(es)
        n == Len(values)
    IN  IF values = <<>>
        THEN <<>>
        ELSE Flatten([i \in 1..n |->
                IF i < n
                THEN LET current_segment_time == values[i][1].timestamp
                         next_segment_time == values[i + 1][1].timestamp
                         duration == Min(D, next_segment_time - current_segment_time)
                     IN  split_group(values[i], duration)
                ELSE split_group(values[n], D)])


\* build_chat_subtitles without the early return on an empty sequence
build_chat_subtitles_no_skip(chat, duration) ==
    LET subs == to_subtitles(chat, CHAT_ENTRY_MAX_DURATION)
        fixed == apply_mp4_fixes(subs, duration)
    IN  [subtitles |-> subs, fixed |-> fixed, filename |-> Some("subtitles.srt"),
         file |-> {<<"subtitles.srt", to_srt(fixed)>>}]

build_chat_subtitles(chat, duration) ==
    LET subs == to_subtitles(chat, CHAT_ENTRY_MAX_DURATION)
        fixed == apply_mp4_fixes(subs, duration)
    IN  IF fixed = <<>>
        THEN [subtitles |-> subs, fixed |-> fixed, filename |-> None, file |-> {}]
        ELSE [subtitles |-> subs, fixed |-> fixed, filename |-> Some("subtitles.srt"),
              file |-> {<<"subtitles.srt", to_srt(fixed)>>}]

-----------------------------------------------------------------------------
(* utils.py *)

\* files: the paths given with -i, in order; maps: the -map arguments as
\* <<input index, stream type>>; codec: the -c:s argument, if any
build_video(webcam_path, deskshare_path, subtitles_path) ==
    LET files1 == <<Value(webcam_path)>>
        maps1 == <<<<0, "a">>>>
        input1 == 1
        files2 == IF deskshare_path # None THEN files1 \o <<Value(deskshare_path)>> ELSE files1
        maps2 == IF deskshare_path # None
                 THEN maps1 \o <<<<input1, "v">>>>
                 ELSE maps1 \o <<<<0, "v">>>>
        input2 == IF deskshare_path # None THEN input1 + 1 ELSE input1
        files3 == IF subtitles_path # None THEN files2 \o <<Value(subtitles_path)>> ELSE files2
        maps3 == IF subtitles_path # None THEN maps2 \o <<<<input2, "s">>>> ELSE maps2
        codec == IF subtitles_path # None THEN Some("mov_text") ELSE None
    IN  [files |-> files3, maps |-> maps3, codec |-> codec]

-----------------------------------------------------------------------------
(* Inputs *)

\* the non-decreasing sequences of n numbers in lo..hi
RECURSIVE Ascending(_, _, _)
Ascending(n, lo, hi) ==
    IF n = 0 THEN {<<>>}
    ELSE UNION {{<<t>> \o rest : rest \in Ascending(n - 1, t, hi)} : t \in lo..hi}

\* a transcript ordered by timestamp; the i-th entry says message i
Transcript(ts) == [i \in 1..Len(ts) |-> BbbChatEntry("user", i, ts[i])]

Transcripts == UNION {{Transcript(ts) : ts \in Ascending(n, 0, MaxTimestamp)} : n \in 0..MaxEntries}

\* an ordered, non-overlapping cue sequence; the i-th cue has text i
Cues(b) == [i \in 1..(Len(b) \div 2) |-> SubtitlesEntry(<<"cue", i>>, b[2 * i - 1], b[2 * i])]

CueSequences == UNION {{Cues(b) : b \in Ascending(2 * n, 0, MaxTime)} : n \in 0..MaxCues}

\* a task of the gather call that has not returned yet
Pending == <<"pending", "task">>

Idle == [webcam |-> Pending, deskshare |-> Pending, subtitles |-> Pending]

NotRun == [files |-> <<>>, maps |-> <<>>, codec |-> None]

-----------------------------------------------------------------------------
(* to_subtitles on its own *)

GroupInit ==
    /\ entries \in Transcripts
    /\ max_duration \in -1..MaxD
    /\ pc = "call"
    /\ subtitles = <<>>
    /\ recording_duration = None
    /\ filled = <<>> /\ pieces = <<>> /\ result = <<>> /\ passes = 0
    /\ no_chat = FALSE /\ deskshare = None /\ parts = Idle /\ written = {} /\ ffmpeg = NotRun

\* to_subtitles has no raise statement and no operation that can fail: it returns
ToSubtitles ==
    /\ pc = "call"
    /\ subtitles' = to_subtitles(entries, max_duration)
    /\ pc' = "returned"
    /\ UNCHANGED <<entries, max_duration, recording_duration, filled, pieces, result,
                   passes, no_chat, deskshare, parts, written, ffmpeg>>

GroupNext == ToSubtitles

GroupSpec == GroupInit /\ [][GroupNext]_vars

-----------------------------------------------------------------------------
(* apply_mp4_fixes on its own *)

FixInit ==
    /\ subtitles \in CueSequences
    /\ recording_duration \in {None} \cup {Some(t) : t \in 0..MaxTime}
    /\ pc = "call"
    /\ entries = <<>> /\ max_duration = CHAT_ENTRY_MAX_DURATION
    /\ filled = <<>> /\ pieces = <<>> /\ result = <<>> /\ passes = 0
    /\ no_chat = FALSE /\ deskshare = None /\ parts = Idle /\ written = {} /\ ffmpeg = NotRun

\* apply_mp4_fixes has no raise statement and no operation that can fail: it returns
ApplyMp4Fixes ==
    /\ pc = "call"
    /\ filled' = fill_gapes(subtitles)
    /\ pieces' = split_all(filled')
    /\ result' = clamp(Flatten(pieces'), recording_duration)
    /\ passes' = 1
    /\ pc' = "returned"
    /\ UNCHANGED <<entries, max_duration, recording_duration, subtitles,
                   no_chat, deskshare, parts, written, ffmpeg>>

\* the caller hands the returned sequence to apply_mp4_fixes once more
ApplyAgain ==
    /\ pc = "returned"
    /\ passes = 1
    /\ subtitles' = result
    /\ filled' = fill_gapes(result)
    /\ pieces' = split_all(filled')
    /\ result' = clamp(Flatten(pieces'), recording_duration)
    /\ passes' = 2
    /\ UNCHANGED <<entries, max_duration, recording_duration, pc,
                   no_chat, deskshare, parts, written, ffmpeg>>

FixNext == ApplyMp4Fixes \/ ApplyAgain

FixSpec == FixInit /\ [][FixNext]_vars

-----------------------------------------------------------------------------
(* main.py: gather(webcam_task, deskshare_task, subtitles_task), then build_video *)

\* main has the metadata, the webcam and (unless --no-deskshare, or the server has
\* none) the deskshare; get_chat will return a transcript ordered by timestamp

Init ==
    /\ entries \in Transcripts
    /\ recording_duration \in {Some(t) : t \in 0..MaxTime}
    /\ no_chat \in BOOLEAN
    /\ deskshare \in {None, Some("deskshare")}
    /\ max_duration = CHAT_ENTRY_MAX_DURATION
    /\ pc = "gather"
    /\ subtitles = <<>> /\ filled = <<>> /\ pieces = <<>> /\ result = <<>> /\ passes = 0
    /\ parts = Idle /\ written = {} /\ ffmpeg = NotRun

WebcamTask ==
    /\ pc = "gather"
    /\ parts.webcam = Pending
    /\ parts' = [parts EXCEPT !.webcam = Some("webcams")]
    /\ written' = written \cup {<<"webcams", "video">>}
    /\ UNCHANGED <<entries, max_duration, recording_duration, subtitles, filled, pieces,
                   result, passes, pc, no_chat, deskshare, ffmpeg>>

DeskshareTask ==
    /\ pc = "gather"
    /\ parts.deskshare = Pending
    /\ IF deskshare # None
       THEN /\ parts' = [parts EXCEPT !.deskshare = Some("deskshare")]
            /\ written' = written \cup {<<"deskshare", "video">>}
       ELSE /\ parts' = [parts EXCEPT !.deskshare = None]
            /\ written' = written
    /\ UNCHANGED <<entries, max_duration, recording_duration, subtitles, filled, pieces,
                   result, passes, pc, no_chat, deskshare, ffmpeg>>

SubtitlesTask ==
    /\ pc = "gather"
    /\ parts.subtitles = Pending
    /\ IF no_chat
       THEN /\ parts' = [parts EXCEPT !.subtitles = None]
            /\ UNCHANGED <<subtitles, filled, pieces, result, passes, written>>
       ELSE LET built == build_chat_subtitles(entries, recording_duration)
            IN  /\ subtitles' = built.subtitles
                /\ filled' = fill_gapes(built.subtitles)
                /\ pieces' = split_all(filled')
                /\ result' = built.fixed
                /\ passes' = 1
                /\ written' = written \cup built.file
                /\ parts' = [parts EXCEPT !.subtitles = built.filename]
    /\ UNCHANGED <<entries, max_duration, recording_duration, pc, no_chat, deskshare, ffmpeg>>

BuildVideo ==
    /\ pc = "gather"
    /\ \A t \in DOMAIN parts : parts[t] # Pending
    /\ ffmpeg' = build_video(parts.webcam, parts.deskshare, parts.subtitles)
    /\ pc' = "built"
    /\ UNCHANGED <<entries, max_duration, recording_duration, subtitles, filled, pieces,
                   result, passes, no_chat, deskshare, parts, written>>

Next == WebcamTask \/ DeskshareTask \/ SubtitlesTask \/ BuildVideo

Spec == Init /\ [][Next]_vars

-----------------------------------------------------------------------------
(* Properties *)

Duration(cue) == cue.end_time - cue.start_time

Last(seq) == seq[Len(seq)]

RECURSIVE SumDurations(_)
SumDurations(cues) ==
    IF cues = <<>> THEN 0 ELSE Duration(Head(cues)) + SumDurations(Tail(cues))

\* apply_mp4_fixes' result before its last step
Unclamped == Flatten(pieces)

\* C1 (GroupSpec): for a max_duration above zero, the cues to_subtitles returns
\* never overlap (each cue ends no later than the next one starts) and their
\* starts never decrease.
C1_NonOverlapAndOrder ==
    (pc = "returned" /\ max_duration > 0) =>
        \A i \in 1..(Len(subtitles) - 1) :
            /\ subtitles[i].end_time <= subtitles[i + 1].start_time
            /\ subtitles[i].start_time <= subtitles[i + 1].start_time

\* C2 (FixSpec): no cue apply_mp4_fixes returns for an ordered, non-overlapping
\* input is longer than MAX_VALID_MP4_DURATION.
C2_WithinLimit ==
    passes = 1 =>
        \A i \in 1..Len(result) : Duration(result[i]) <= MAX_VALID_MP4_DURATION

\* C3 (FixSpec): a cue longer than the limit is split into ceil(duration / limit)
\* sub-cues with its text; they are contiguous, start at its start, end at its
\* end, and their durations add up to its duration.
C3_SplitCoversEntry ==
    passes = 1 =>
        \A i \in 1..Len(filled) :
            Duration(filled[i]) > MAX_VALID_MP4_DURATION =>
                LET e == filled[i]
                    sub == pieces[i]
                    n == Len(sub)
                IN  /\ (n - 1) * MAX_VALID_MP4_DURATION < Duration(e)
                    /\ Duration(e) <= n * MAX_VALID_MP4_DURATION
                    /\ \A k \in 1..n : sub[k].text = e.text
                    /\ \A k \in 1..(n - 1) : sub[k].end_time = sub[k + 1].start_time
                    /\ sub[1].start_time = e.start_time
                    /\ sub[n].end_time = e.end_time
                    /\ SumDurations(sub) = Duration(e)

\* a cue of four or more sub-cues was split, and the division left a remainder
C3_Witness ==
    /\ passes = 1
    /\ \E i \in 1..Len(filled) :
        /\ Len(pieces[i]) >= 4
        /\ Duration(pieces[i][1]) # Duration(Last(pieces[i]))

\* C4 (FixSpec): applying apply_mp4_fixes to its own result, with the same
\* recording duration, returns that result unchanged.
C4_Idempotent == passes = 2 => result = subtitles

\* C5 (FixSpec): the last step changes nothing but the end of the last cue, and
\* that only when it lies beyond the recording duration, to exactly that duration.
C5_ClampOnlyLast ==
    passes = 1 =>
        IF recording_duration # None /\ Unclamped # <<>>
           /\ Last(Unclamped).end_time > Value(recording_duration)
        THEN /\ Len(result) = Len(Unclamped)
             /\ \A i \in 1..(Len(result) - 1) : result[i] = Unclamped[i]
             /\ Last(result).text = Last(Unclamped).text
             /\ Last(result).start_time = Last(Unclamped).start_time
             /\ Last(result).end_time = Value(recording_duration)
        ELSE result = Unclamped

\* the last of several cues was cut short, without being inverted
C5_Witness ==
    /\ passes = 1
    /\ recording_duration # None
    /\ Len(result) >= 3
    /\ Last(Unclamped).end_time > Value(recording_duration)
    /\ Last(result).start_time < Value(recording_duration)

\* C6 (FixSpec): a recording duration before the start of the last cue makes
\* apply_mp4_fixes raise; it never returns a cue that ends before it starts.
C6_FaultOnUnsatisfiableClamp ==
    (/\ passes = 1
     /\ recording_duration # None
     /\ Unclamped # <<>>
     /\ Value(recording_duration) < Last(Unclamped).start_time) =>
        /\ pc = "raised"
        /\ \A i \in 1..Len(result) : result[i].start_time <= result[i].end_time

\* the cues of the result that are not placeholders
RealCues(cues) == LET Real(c) == c.text # gape_placeholder IN SelectSeq(cues, Real)

\* C7 (FixSpec): the result is empty only for an empty input; every input cue is
\* in the result, in input order, whole or as contiguous sub-cues with its text
\* (the end of the last one possibly cut to the recording duration).
C7_EveryCuePresent ==
    passes = 1 =>
        LET real == RealCues(result)
            At(i) == {k \in 1..Len(real) : real[k].text = subtitles[i].text}
            Lo(i) == CHOOSE k \in At(i) : \A j \in At(i) : k <= j
            Hi(i) == CHOOSE k \in At(i) : \A j \in At(i) : k >= j
        IN  /\ (result = <<>> => subtitles = <<>>)
            /\ \A i \in 1..Len(subtitles) :
                /\ At(i) # {}
                /\ At(i) = Lo(i)..Hi(i)
                /\ \A k \in Lo(i)..(Hi(i) - 1) : real[k].end_time = real[k + 1].start_time
                /\ real[Lo(i)].start_time = subtitles[i].start_time
                /\ \/ real[Hi(i)].end_time = subtitles[i].end_time
                   \/ /\ i = Len(subtitles)
                      /\ recording_duration # None
                      /\ real[Hi(i)].end_time = Value(recording_duration)
                /\ i < Len(subtitles) => Hi(i) < Lo(i + 1)

\* C8 (GroupSpec): for a max_duration above zero every cue to_subtitles returns
\* starts strictly before it ends.
C8_PositiveDuration ==
    (pc = "returned" /\ max_duration > 0) =>
        \A i \in 1..Len(subtitles) : subtitles[i].start_time < subtitles[i].end_time

\* C9 (Spec): with an empty chat transcript to_subtitles and apply_mp4_fixes
\* return empty sequences, build_chat_subtitles returns no filename and writes
\* no subtitles.srt, and build_video runs without a subtitle input or mapping.
C9_EmptyChatSkipsTrack ==
    (entries = <<>> /\ ~no_chat /\ parts.subtitles # Pending) =>
        /\ subtitles = <<>>
        /\ result = <<>>
        /\ parts.subtitles = None
        /\ \A f \in written : f[1] # "subtitles.srt"
        /\ pc = "built" =>
            /\ \A i \in 1..Len(ffmpeg.files) : ffmpeg.files[i] # "subtitles.srt"
            /\ \A i \in 1..Len(ffmpeg.maps) : ffmpeg.maps[i][2] # "s"
            /\ ffmpeg.codec = None

\* build_video has run after build_chat_subtitles was given an empty transcript
C9_Witness == pc = "built" /\ entries = <<>> /\ ~no_chat

\* C10 (GroupSpec): to_subtitles raises, and returns nothing, whenever
\* max_duration is zero or negative.
C10_FaultOnNonPositiveD == (pc # "call" /\ max_duration <= 0) => pc = "raised"

\* the end before the i-th input cue: the recording's start before the first
PreviousEnd(i) == IF i = 1 THEN 0 ELSE subtitles[i - 1].end_time

GapBefore(i) == subtitles[i].start_time - PreviousEnd(i)

\* where the i-th input cue stands among the cues __fill_gapes yielded
PlaceOf(i) == i + Cardinality({j \in 1..i : GapBefore(j) > MAX_VALID_MP4_DURATION})

\* C11 (FixSpec): for a non-empty input, gap filling yields every input cue, in
\* order, and before a cue exactly one placeholder spanning the gap that precedes
\* it (from offset zero before the first cue) if and only if that gap is longer
\* than the limit; nothing else is yielded.
C11_PlaceholderIffGapOverLimit ==
    (passes = 1 /\ subtitles # <<>>) =>
        /\ Len(filled) = PlaceOf(Len(subtitles))
        /\ \A i \in 1..Len(subtitles) :
            /\ filled[PlaceOf(i)] = subtitles[i]
            /\ GapBefore(i) > MAX_VALID_MP4_DURATION =>
                filled[PlaceOf(i) - 1] =
                    SubtitlesEntry(gape_placeholder, PreviousEnd(i), subtitles[i].start_time)

\* the share of a group: allotted / n rounded to a whole tick, a tie to the even one
IsRoundedShare(share, allotted, n) ==
    /\ 2 * (n * share - allotted) <= n
    /\ 2 * (allotted - n * share) <= n
    /\ (2 * (n * share - allotted) = n \/ 2 * (allotted - n * share) = n) => share % 2 = 0

\* the entries that share the timestamp of the j-th
GroupOf(j) == {k \in 1..Len(entries) : entries[k].timestamp = entries[j].timestamp}

IsLastOfGroup(j) == \A k \in GroupOf(j) : k <= j

\* the time allotted to the group of the j-th entry
Allotted(j) ==
    LET later == {entries[k].timestamp : k \in {m \in 1..Len(entries) :
                                                  entries[m].timestamp > entries[j].timestamp}}
    IN  IF later = {}
        THEN max_duration
        ELSE Min(max_duration,
                 (CHOOSE t \in later : \A u \in later : t <= u) - entries[j].timestamp)

\* to_subtitles gives one cue per entry, in order, each group's cues contiguous
\* from the group's timestamp to that timestamp plus the time allotted to it;
\* Share(cue, j) says how long a cue that is not the last of its group is
GroupedAsAllotted(Share(_, _)) ==
    /\ Len(subtitles) = Len(entries)
    /\ \A j \in 1..Len(entries) :
        /\ subtitles[j].text = build_text(entries[j])
        /\ subtitles[j].start_time =
              IF j - 1 \in GroupOf(j) THEN subtitles[j - 1].end_time ELSE entries[j].timestamp
        /\ IF IsLastOfGroup(j)
           THEN subtitles[j].end_time = entries[j].timestamp + Allotted(j)
           ELSE Share(subtitles[j], j)

ExactShare(cue, j) == Cardinality(GroupOf(j)) * Duration(cue) = Allotted(j)

RoundedShare(cue, j) == IsRoundedShare(Duration(cue), Allotted(j), Cardinality(GroupOf(j)))

\* C12 as stated (GroupSpec): for a max_duration above zero, one cue per entry in
\* transcript order; each group's cues are contiguous, the first starts at the
\* group's timestamp, each but the last is exactly allotted / n long, and the
\* last ends at the timestamp plus allotted, allotted being min(max_duration,
\* next timestamp - timestamp), or max_duration for the last group.
C12_ExactShares ==
    (pc = "returned" /\ max_duration > 0) => GroupedAsAllotted(ExactShare)

\* C12 as amended (GroupSpec): the same, each cue but the last of its group being
\* allotted / n rounded to a whole tick (a tie to the even one) long.
C12_RoundedShares ==
    (pc = "returned" /\ max_duration > 0) => GroupedAsAllotted(RoundedShare)

\* a group of three or more, cut short by the next group, whose share is rounded
C12_Witness ==
    /\ pc = "returned"
    /\ max_duration > 0
    /\ \E j \in 1..Len(entries) :
        /\ Cardinality(GroupOf(j)) >= 3
        /\ Allotted(j) < max_duration
        /\ Allotted(j) % Cardinality(GroupOf(j)) # 0
        /\ ~IsLastOfGroup(j)
        /\ Duration(subtitles[j]) > 0

=============================================================================
